---------------------------- MODULE Spec2Model ----------------------------
(***************************************************************************)
(* A model of the software rasterizer of src/src/rasterizer.rs together    *)
(* with the shaders and Blend implementations of src/src/main.rs.          *)
(*                                                                         *)
(* Numbers.  f32 values are modelled as exact fractions [n, d] (n/d), the  *)
(* three barycentric weights of a pixel sharing the denominator `area`;    *)
(* d = 0 stands for NaN (0/0).  The inputs the model draws are chosen so   *)
(* that map_coord's f32 arithmetic is exact (clip z a power of two times   *)
(* the scale 15, small integer x and y); rounding of the weights and of    *)
(* the depth scaling to 24 bits of mantissa is not modelled.               *)
(* u32 depth cells are pairs <<hi, lo>> of 16-bit halves, so that every    *)
(* integer of the model stays within 32 signed bits.                       *)
(*                                                                         *)
(* A float-to-integer `as` cast of a value outside the target's range is   *)
(* undefined behaviour in the toolchain this crate needs (it uses the      *)
(* feature gates slice_patterns and step_by).  cast_mode is the outcome    *)
(* the build produces: "saturate" (clamp to the target's range) or "wrap"  *)
(* (convert to 64 bits and keep the low 32, as x86-64 does).               *)
(***************************************************************************)
EXTENDS Integers, Sequences, FiniteSets, TLC

VARIABLES
    width, height,          \* Rasterizer.width, Rasterizer.height
    backbuffer,             \* Rasterizer.backbuffer : idx -> <<r, g, b, a>>
    depthbuffer,            \* Rasterizer.depthbuffer: idx -> u32
    view, proj,             \* Rasterizer.view, Rasterizer.proj
    frag_cache,             \* Pipeline.frag_cache
    vertex_cache,           \* Pipeline.vertex_cache
    cast_mode,              \* outcome of out-of-range float casts in this build
    last,                   \* observation of the last operation (history)
    frame,                  \* observation of the current frame (history)
    sc                      \* the 854x640 scenario (used by ScSpec only)

vars == <<width, height, backbuffer, depthbuffer, view, proj,
          frag_cache, vertex_cache, cast_mode, last, frame, sc>>

---------------------------------------------------------------------------
(* Bounds of the model *)

MaxVerts == 6
MaxDraws == 2

---------------------------------------------------------------------------
(* Integer helpers *)

Abs(n) == IF n < 0 THEN -n ELSE n

\* Rust's `as i32` on a float quotient n/d: truncation toward zero.
TruncDiv(n, d) ==
    IF (n < 0) = (d < 0) THEN Abs(n) \div Abs(d) ELSE -(Abs(n) \div Abs(d))

Min2(a, b) == IF a < b THEN a ELSE b
Max2(a, b) == IF a > b THEN a ELSE b

---------------------------------------------------------------------------
(* u32 cells as <<hi, lo>> *)

UINT32_MAX == <<65535, 65535>>
U32_ZERO == <<0, 0>>

U32Less(a, b) == a[1] < b[1] \/ (a[1] = b[1] /\ a[2] < b[2])

\* (2^32 - q) mod 2^32
U32Neg(q) ==
    IF q[2] = 0 THEN <<(65536 - q[1]) % 65536, 0>>
    ELSE <<65535 - q[1], 65536 - q[2]>>

\* k hexadecimal digits of the fraction r/D (0 <= r < D): <<digits, remainder>>
RECURSIVE HexDigits(_, _, _, _)
HexDigits(r, D, k, acc) ==
    IF k = 0 THEN <<acc, r>>
    ELSE HexDigits((r * 16) % D, D, k - 1, (acc * 16) + ((r * 16) \div D))

\* floor(r * 2^32 / D) for 0 <= r < D
ScaleToU32(r, D) ==
    LET hi == HexDigits(r, D, 4, 0)
        lo == HexDigits(hi[2], D, 4, 0)
    IN  <<hi[1], lo[1]>>

---------------------------------------------------------------------------
(* cgmath: Matrix4 as four rows, Vector4 as <<x, y, z, w>> *)

Identity == << <<1, 0, 0, 0>>, <<0, 1, 0, 0>>, <<0, 0, 1, 0>>, <<0, 0, 0, 1>> >>

from_scale(s) == << <<s, 0, 0, 0>>, <<0, s, 0, 0>>, <<0, 0, s, 0>>, <<0, 0, 0, 1>> >>

Dot(A, B, i, j) ==
    A[i][1] * B[1][j] + A[i][2] * B[2][j] + A[i][3] * B[3][j] + A[i][4] * B[4][j]

MatRow(A, B, i) == <<Dot(A, B, i, 1), Dot(A, B, i, 2), Dot(A, B, i, 3), Dot(A, B, i, 4)>>

MatMul(A, B) == <<MatRow(A, B, 1), MatRow(A, B, 2), MatRow(A, B, 3), MatRow(A, B, 4)>>

RowVec(A, v, i) == A[i][1] * v[1] + A[i][2] * v[2] + A[i][3] * v[3] + A[i][4] * v[4]

MatVec(A, v) == <<RowVec(A, v, 1), RowVec(A, v, 2), RowVec(A, v, 3), RowVec(A, v, 4)>>

---------------------------------------------------------------------------
(* src/src/main.rs: the vertex type, the shaders and Blend for Uv *)

Vertex(x, y, z, u, v) == [pos |-> <<x, y, z>>, uv |-> <<u, v>>]

\* (Uv(input.uv), mat * input.pos.extend(1f32))
vertex_shader(input, mat) ==
    [out |-> input.uv,
     pos |-> MatVec(mat, <<input.pos[1], input.pos[2], input.pos[3], 1>>)]

One == [n |-> 1, d |-> 1]

\* Vector4::new(input.0.x, input.0.y, 1f32, 1f32)
fragment_shader(fragment, input) == <<input[1], input[2], One, One>>

\* a * aw + b * bw + c * cw per component; the weights share their denominator
blend_Uv(a, aw, b, bw, c, cw) ==
    << [n |-> a[1] * aw.n + b[1] * bw.n + c[1] * cw.n, d |-> aw.d],
       [n |-> a[2] * aw.n + b[2] * bw.n + c[2] * cw.n, d |-> aw.d] >>

---------------------------------------------------------------------------
(* src/src/rasterizer.rs: Blend for Depth, and the float-to-integer casts *)

blend_Depth(a, aw, b, bw, c, cw) ==
    [n |-> a * aw.n + b * bw.n + c * cw.n, d |-> aw.d]

FAR == 1000

CastModes == {"saturate", "wrap"}

\* `as u32` of 2^32 (out of range)
CastU32Over(mode) == IF mode = "saturate" THEN UINT32_MAX ELSE U32_ZERO

\* `as u32` of -q for 0 < q (out of range)
CastU32Neg(q, mode) == IF mode = "saturate" THEN U32_ZERO ELSE U32Neg(q)

\* ((f32::min(blend, 1000f32) / 1000f32) * u32::max_value() as f32) as u32
\* (u32::max_value() as f32 is 2^32; f32::min of NaN and 1000 is 1000)
DepthValue(blend, mode) ==
    IF blend.d = 0 \/ blend.n >= FAR * blend.d THEN CastU32Over(mode)
    ELSE IF blend.n >= 0 THEN ScaleToU32(blend.n, FAR * blend.d)
    ELSE LET q == ScaleToU32((-blend.n) % (FAR * blend.d), FAR * blend.d)
         IN  IF -blend.n < FAR * blend.d /\ q = U32_ZERO THEN U32_ZERO
             ELSE CastU32Neg(q, mode)

\* (c * 255f32) as u8 for a channel c in [0, 1]; NaN casts to 0 in both modes
ToU8(c) == IF c.d = 0 THEN 0 ELSE (255 * c.n) \div c.d

ToRgba(color) == <<ToU8(color[1]), ToU8(color[2]), ToU8(color[3]), ToU8(color[4])>>

---------------------------------------------------------------------------
(* Pipeline::rasterize *)

edge_function(a, b, c) ==
    (c[1] - a[1]) * (b[2] - a[2]) - (c[2] - a[2]) * (b[1] - a[1])

\* screen = (x / -z, y / -z);
\* (((screen.x + 1) / 2 * width) as i32, ((1 - screen.y) / 2 * height) as i32)
map_coord(vec, w, h) ==
    << TruncDiv((vec[3] - vec[1]) * w, 2 * vec[3]),
       TruncDiv((vec[3] + vec[2]) * h, 2 * vec[3]) >>

I32_MAX == 2147483647

NoClampHi(v, limit) == v
ClampHi(v, limit) == IF v > limit THEN limit ELSE v
ClampLo(v) == IF v < 0 THEN 0 ELSE v

\* min/max over the three mapped vertices (max is seeded with min), then the
\* clamp to [0, width] x [0, height]
BoundingBox(p1, p2, p3, w, h) ==
    LET minx == Min2(Min2(Min2(I32_MAX, p1[1]), p2[1]), p3[1])
        miny == Min2(Min2(Min2(I32_MAX, p1[2]), p2[2]), p3[2])
        maxx == Max2(Max2(Max2(minx, p1[1]), p2[1]), p3[1])
        maxy == Max2(Max2(Max2(miny, p1[2]), p2[2]), p3[2])
    IN  [min |-> <<ClampLo(ClampHi(minx, w)), ClampLo(ClampHi(miny, h))>>,
         max |-> <<ClampLo(ClampHi(maxx, w)), ClampLo(ClampHi(maxy, h))>>]

\* for x in (min.x..max.x) { for y in (min.y..max.y) { ... } }
ScanOrder(box) ==
    LET nx == Max2(box.max[1] - box.min[1], 0)
        ny == Max2(box.max[2] - box.min[2], 0)
    IN  [i \in 1..(nx * ny) |->
            <<box.min[1] + ((i - 1) \div ny), box.min[2] + ((i - 1) % ny)>>]

CulledNegativeOnly(area) == area < 0
Culled(area) == area <= 0

Inside(w1, w2, w3) == w1 >= 0 /\ w2 >= 0 /\ w3 >= 0

DepthTestLeq(new, stored) == ~U32Less(stored, new)
DepthTestReversed(new, stored) == U32Less(stored, new)
DepthTest(new, stored) == U32Less(new, stored)

\* The body of the two scan loops at pixel (x, y) for triangle number t.
\* st = [backbuffer, depth, scanned, frags, panicked]; frags records every
\* pixel that passed the inside test, scanned every pixel the loops visited.
RasterPixel(st, t, tri, x, y, w, mode) ==
    LET point == <<x, y>>
        area == edge_function(tri.p1, tri.p2, tri.p3)
        st1 == [st EXCEPT !.scanned = Append(@, [t |-> t, x |-> x, y |-> y])]
    IN  IF st.panicked THEN st
        ELSE IF Culled(area) THEN st1
        ELSE
          LET e1 == edge_function(tri.p1, tri.p2, point)
              e2 == edge_function(tri.p2, tri.p3, point)
              e3 == edge_function(tri.p3, tri.p1, point)
          IN  IF ~Inside(e1, e2, e3) THEN st1
              ELSE
                LET w1 == [n |-> e1, d |-> area]
                    w2 == [n |-> e2, d |-> area]
                    w3 == [n |-> e3, d |-> area]
                    z == blend_Depth(tri.a[3], w1, tri.b[3], w2, tri.c[3], w3)
                    depth_val == DepthValue(z, mode)
                    idx == x + w * y
                    frag == [t |-> t, x |-> x, y |-> y, idx |-> idx,
                             w |-> <<w1, w2, w3>>, z |-> z,
                             depth_val |-> depth_val]
                IN  IF idx \notin DOMAIN st.depth
                    THEN [st1 EXCEPT !.panicked = TRUE,
                                     !.frags = Append(@, frag @@ [wrote |-> FALSE, color |-> <<>>])]
                    ELSE IF DepthTest(depth_val, st.depth[idx])
                    THEN LET color == ToRgba(fragment_shader(point,
                                          blend_Uv(tri.A, w1, tri.B, w2, tri.C, w3)))
                         IN  [st1 EXCEPT !.depth[idx] = depth_val,
                                         !.backbuffer[idx] = color,
                                         !.frags = Append(@, frag @@ [wrote |-> TRUE, color |-> color])]
                    ELSE [st1 EXCEPT !.frags = Append(@, frag @@ [wrote |-> FALSE, color |-> <<>>])]

RECURSIVE RasterPixels(_, _, _, _, _, _, _)
RasterPixels(st, t, tri, scan, i, w, mode) ==
    IF i > Len(scan) THEN st
    ELSE RasterPixels(RasterPixel(st, t, tri, scan[i][1], scan[i][2], w, mode),
                      t, tri, scan, i + 1, w, mode)

\* One triangle: the three cached positions and attributes with their mapped pixels
Triangle(pos, attr, w, h) ==
    [a |-> pos[1], b |-> pos[2], c |-> pos[3],
     A |-> attr[1], B |-> attr[2], C |-> attr[3],
     p1 |-> map_coord(pos[1], w, h),
     p2 |-> map_coord(pos[2], w, h),
     p3 |-> map_coord(pos[3], w, h)]

\* slice::chunks(3)
Chunks(s) ==
    [k \in 1..((Len(s) + 2) \div 3) |-> SubSeq(s, 3 * k - 2, Min2(3 * k, Len(s)))]

\* if let (&[a, b, c], &[A, B, C]) = triangle { ... }
RasterChunk(st, t, pos, attr, w, h, mode) ==
    IF Len(pos) # 3 \/ Len(attr) # 3 THEN st
    ELSE LET tri == Triangle(pos, attr, w, h)
         IN  RasterPixels(st, t, tri,
                          ScanOrder(BoundingBox(tri.p1, tri.p2, tri.p3, w, h)),
                          1, w, mode)

RECURSIVE RasterChunks(_, _, _, _, _, _, _, _)
RasterChunks(st, tc, ac, t, n, w, h, mode) ==
    IF t > n THEN st
    ELSE RasterChunks(RasterChunk(st, t, tc[t], ac[t], w, h, mode),
                      tc, ac, t + 1, n, w, h, mode)

\* for triangle in triangles.chunks(3).zip(attributes.chunks(3))
rasterize(w, h, triangles, attributes, bb, db, mode) ==
    LET tc == Chunks(triangles)
        ac == Chunks(attributes)
    IN  RasterChunks([backbuffer |-> bb, depth |-> db, scanned |-> <<>>,
                      frags |-> <<>>, panicked |-> FALSE],
                     tc, ac, 1, Min2(Len(tc), Len(ac)), w, h, mode)

---------------------------------------------------------------------------
(* Pipeline::process *)

SCALE == 15

Transform(v, p) == MatMul(MatMul(p, v), from_scale(SCALE))

KeepCache(cache) == cache
ClearCache(cache) == <<>>

process(w, h, vertices, v, p, bb, db, fc, vc, mode) ==
    LET mat == Transform(v, p)
        fc1 == fc \o [i \in 1..Len(vertices) |-> vertex_shader(vertices[i], mat).out]
        vc1 == vc \o [i \in 1..Len(vertices) |-> vertex_shader(vertices[i], mat).pos]
        r == rasterize(w, h, vc1, fc1, bb, db, mode)
    IN  [backbuffer |-> r.backbuffer, depth |-> r.depth,
         triangles |-> vc1, attributes |-> fc1,
         scanned |-> r.scanned, frags |-> r.frags, panicked |-> r.panicked,
         frag_cache |-> IF r.panicked THEN fc1 ELSE ClearCache(fc1),
         vertex_cache |-> IF r.panicked THEN vc1 ELSE ClearCache(vc1)]

---------------------------------------------------------------------------
(* Inputs.  A 4 x 3 frame buffer; with identity matrices a vertex          *)
(* (x, y, z) maps to the pixel ((z - x) * 2 / z, (z + y) * 3 / (2 z)).     *)

Sizes == {<<4, 3>>}

MirrorX == << <<-1, 0, 0, 0>>, <<0, 1, 0, 0>>, <<0, 0, 1, 0>>, <<0, 0, 0, 1>> >>

Mats == {Identity, MirrorX}

\* pixels (0,0) (0,3) (4,0), depth 15 throughout
Front == << Vertex(1, -1, 1, 1, 0), Vertex(1, 1, 1, 1, 0), Vertex(-1, -1, 1, 1, 0) >>
\* pixels (0,0) (0,2) (3,0), depth 30 throughout: inside the viewport
Back == << Vertex(2, -2, 2, 0, 1), Vertex(2, 1, 2, 0, 1), Vertex(-1, -2, 2, 0, 1) >>
\* pixels (0,0) (0,2) (3,0), depths 15, 30, 60 and three different attributes
Varying == << Vertex(1, -1, 1, 0, 0), Vertex(2, 1, 2, 1, 0), Vertex(-2, -4, 4, 0, 1) >>
\* pixels (0,0) (1,1) (2,2): collinear
Degenerate == << Vertex(2, -2, 2, 1, 1), Vertex(1, 0, 2, 1, 1), Vertex(0, 1, 2, 1, 1) >>
\* Back in the opposite order: negative area, positive once mirrored
Reverse == << Vertex(-1, -2, 2, 1, 1), Vertex(2, 1, 2, 1, 0), Vertex(2, -2, 2, 0, 0) >>
\* pixels (-2,0) (2,4) (6,0): partly outside the viewport
Outside == << Vertex(2, -1, 1, 1, 1), Vertex(0, 2, 1, 1, 1), Vertex(-2, -1, 1, 1, 1) >>
\* pixels (0,0) (0,2) (3,0), depth 1920: beyond the far limit
Far == << Vertex(128, -128, 128, 1, 0), Vertex(128, 64, 128, 1, 0), Vertex(-64, -128, 128, 1, 0) >>
\* pixels (0,0) (0,2) (3,0), depth -30
Negative == << Vertex(-2, 2, -2, 0, 1), Vertex(-2, -1, -2, 0, 1), Vertex(1, 2, -2, 0, 1) >>

Stray == << Vertex(1, -1, 1, 1, 0) >>

Meshes == { Varying \o Back \o Stray,
            Back \o Front \o Stray,
            Degenerate \o Reverse \o Stray,
            Outside \o Far \o Stray,
            Negative \o Varying \o Stray }

\* The vertex lists a draw call is given: every prefix of a mesh
VertexLists == { SubSeq(m, 1, n) : m \in Meshes, n \in 0..MaxVerts } 

---------------------------------------------------------------------------
(* Rasterizer *)

Idle(name) ==
    [op |-> name, vertices |-> <<>>, triangles |-> <<>>, attributes |-> <<>>,
     scanned |-> <<>>, frags |-> <<>>, panicked |-> FALSE,
     prev |-> "none", dirty |-> FALSE]

\* Rasterizer::new and Pipeline::new
Init ==
    /\ \E size \in Sizes : width = size[1] /\ height = size[2]
    /\ backbuffer = [i \in 0..(width * height - 1) |-> <<0, 0, 0, 0>>]
    /\ depthbuffer = [i \in 0..(width * height - 1) |-> U32_ZERO]
    /\ view = Identity
    /\ proj = Identity
    /\ frag_cache = <<>>
    /\ vertex_cache = <<>>
    /\ cast_mode \in CastModes
    /\ last = Idle("new")
    /\ frame = [base |-> "new", draws |-> 0, drawn |-> {}]
    /\ sc = [stage |-> "idle", u |-> <<0, 0>>, order |-> <<1, 2, 3>>, z |-> <<0, 0, 0>>]

clear_color(texel) == <<0, 0, 0, 0>>

clear_depth_zero(cell) == U32_ZERO
clear_depth(cell) == UINT32_MAX

Clear ==
    /\ backbuffer' = [i \in DOMAIN backbuffer |-> clear_color(backbuffer[i])]
    /\ depthbuffer' = [i \in DOMAIN depthbuffer |-> clear_depth(depthbuffer[i])]
    /\ last' = [Idle("clear") EXCEPT !.dirty =
                   \E i \in DOMAIN backbuffer : backbuffer[i] # <<0, 0, 0, 0>>]
    /\ frame' = [base |-> "clear", draws |-> 0, drawn |-> {}]
    /\ UNCHANGED <<width, height, view, proj, frag_cache, vertex_cache, cast_mode, sc>>

SetView(mat) ==
    /\ view' = mat
    /\ last' = Idle("set_view")
    /\ UNCHANGED <<width, height, backbuffer, depthbuffer, proj, frag_cache,
                   vertex_cache, cast_mode, frame, sc>>

SetProj(mat) ==
    /\ proj' = mat
    /\ last' = Idle("set_proj")
    /\ UNCHANGED <<width, height, backbuffer, depthbuffer, view, frag_cache,
                   vertex_cache, cast_mode, frame, sc>>

Draw(vertices) ==
    /\ frame.draws < MaxDraws
    /\ \E r \in {process(width, height, vertices, view, proj, backbuffer,
                         depthbuffer, frag_cache, vertex_cache, cast_mode)} :
           /\ backbuffer' = r.backbuffer
           /\ depthbuffer' = r.depth
           /\ frag_cache' = r.frag_cache
           /\ vertex_cache' = r.vertex_cache
           /\ last' = [op |-> "draw", vertices |-> vertices,
                       triangles |-> r.triangles, attributes |-> r.attributes,
                       scanned |-> r.scanned, frags |-> r.frags,
                       panicked |-> r.panicked,
                       prev |-> IF last.op # "draw" THEN "none"
                                ELSE IF last.vertices = vertices THEN "same"
                                ELSE "other",
                       dirty |-> FALSE]
           /\ frame' = [frame EXCEPT
                          !.draws = @ + 1,
                          !.drawn = @ \cup {r.frags[k].idx : k \in
                                 {j \in DOMAIN r.frags : r.frags[j].wrote}}]
    /\ UNCHANGED <<width, height, view, proj, cast_mode, sc>>

Next ==
    \/ Clear
    \/ \E mat \in Mats : SetView(mat)
    \/ \E mat \in Mats : SetProj(mat)
    \/ \E vertices \in VertexLists : Draw(vertices)

Spec == Init /\ [][Next]_vars

---------------------------------------------------------------------------
(* The 854 x 640 scenario: one triangle with the mapped vertices            *)
(* (100,100), (200,100), (150,200) and one attribute U at all three         *)
(* vertices, drawn into a cleared buffer.  The two arrays are represented   *)
(* by the one cell the scan loops can touch at the centroid (150, 133):     *)
(* the loop body at (x, y) reads and writes index x + width * y only.       *)
(* The pipeline's vertex shader passes clip positions through.              *)

ScSize == <<854, 640>>
ScPixels == << <<100, 100>>, <<200, 100>>, <<150, 200>> >>
ScCentroid == <<150, 133>>
ScIdx == ScCentroid[1] + ScSize[1] * ScCentroid[2]

ScDepths == {500, 854, 999}
ScAttrs == {<<0, 0>>, <<0, 1>>, <<1, 0>>, <<1, 1>>}
ScOrders == {<<1, 2, 3>>, <<1, 3, 2>>, <<2, 1, 3>>, <<2, 3, 1>>, <<3, 1, 2>>, <<3, 2, 1>>}

\* A clip position of depth z that map_coord sends to pixel p
ScClip(p, z) ==
    LET x == CHOOSE x \in (-z)..z : TruncDiv((z - x) * ScSize[1], 2 * z) = p[1]
        y == CHOOSE y \in (-z)..z : TruncDiv((z + y) * ScSize[2], 2 * z) = p[2]
    IN  <<x, y, z, 1>>

ScInit ==
    /\ width = ScSize[1] /\ height = ScSize[2]
    /\ backbuffer = [i \in {ScIdx} |-> <<0, 0, 0, 0>>]
    /\ depthbuffer = [i \in {ScIdx} |-> UINT32_MAX]
    /\ view = Identity
    /\ proj = Identity
    /\ frag_cache = <<>>
    /\ vertex_cache = <<>>
    /\ cast_mode \in CastModes
    /\ last = Idle("clear")
    /\ frame = [base |-> "clear", draws |-> 0, drawn |-> {}]
    /\ sc \in [stage : {"ready"}, u : ScAttrs, order : ScOrders,
               z : ScDepths \X ScDepths \X ScDepths]

\* process for the scenario's three vertices, followed at the centroid
ScDraw ==
    /\ sc.stage = "ready"
    /\ \E vc1 \in {vertex_cache \o
                     [i \in 1..3 |-> ScClip(ScPixels[sc.order[i]], sc.z[i])]} :
       \E fc1 \in {frag_cache \o [i \in 1..3 |-> sc.u]} :
       \E tri \in {Triangle(vc1, fc1, width, height)} :
       \E box \in {BoundingBox(tri.p1, tri.p2, tri.p3, width, height)} :
       \E r \in {IF /\ ScCentroid[1] \in box.min[1]..(box.max[1] - 1)
                    /\ ScCentroid[2] \in box.min[2]..(box.max[2] - 1)
                 THEN RasterPixel([backbuffer |-> backbuffer, depth |-> depthbuffer,
                                   scanned |-> <<>>, frags |-> <<>>,
                                   panicked |-> FALSE],
                                  1, tri, ScCentroid[1], ScCentroid[2],
                                  width, cast_mode)
                 ELSE [backbuffer |-> backbuffer, depth |-> depthbuffer,
                       scanned |-> <<>>, frags |-> <<>>, panicked |-> FALSE]} :
          /\ backbuffer' = r.backbuffer
          /\ depthbuffer' = r.depth
          /\ frag_cache' = ClearCache(fc1)
          /\ vertex_cache' = ClearCache(vc1)
          /\ last' = [Idle("draw") EXCEPT !.triangles = vc1, !.attributes = fc1,
                                          !.scanned = r.scanned, !.frags = r.frags]
          /\ frame' = [frame EXCEPT
                         !.draws = 1,
                         !.drawn = {r.frags[k].idx : k \in
                                {j \in DOMAIN r.frags : r.frags[j].wrote}}]
    /\ sc' = [sc EXCEPT !.stage = "drawn"]
    /\ UNCHANGED <<width, height, view, proj, cast_mode>>

ScNext == ScDraw

ScSpec == ScInit /\ [][ScNext]_vars

---------------------------------------------------------------------------
(* Reading the observation of the last draw *)

\* Triangle number t of the last draw, as rasterize assembled it
LastTriangle(t) ==
    Triangle(SubSeq(last.triangles, 3 * t - 2, 3 * t),
             SubSeq(last.attributes, 3 * t - 2, 3 * t), width, height)

SignedArea(tri) == edge_function(tri.p1, tri.p2, tri.p3)

Frags == {last.frags[k] : k \in DOMAIN last.frags}
Scanned == {last.scanned[k] : k \in DOMAIN last.scanned}

ClearedColor == [i \in 0..(width * height - 1) |-> <<0, 0, 0, 0>>]
ClearedDepth == [i \in 0..(width * height - 1) |-> UINT32_MAX]

InViewport(p) == p[1] >= 0 /\ p[1] < width /\ p[2] >= 0 /\ p[2] < height

\* The barycentric interpolation of the vertex depths at (x, y): each vertex
\* weighted by the edge function of the opposite edge
TrueDepth(tri, x, y) ==
    [n |-> tri.a[3] * edge_function(tri.p2, tri.p3, <<x, y>>)
         + tri.b[3] * edge_function(tri.p3, tri.p1, <<x, y>>)
         + tri.c[3] * edge_function(tri.p1, tri.p2, <<x, y>>),
     d |-> SignedArea(tri)]

---------------------------------------------------------------------------
(* Claims *)

\* C1: a clear() step, from any reachable state, leaves every color texel
\* (0,0,0,0) and every depth cell UINT32_MAX, and changes neither the lengths
\* of the two arrays nor the stored view and projection matrices.
C1_ClearResets ==
    [][last'.op = "clear" =>
         /\ \A i \in DOMAIN backbuffer' : backbuffer'[i] = <<0, 0, 0, 0>>
         /\ \A i \in DOMAIN depthbuffer' : depthbuffer'[i] = UINT32_MAX
         /\ DOMAIN backbuffer' = DOMAIN backbuffer
         /\ DOMAIN depthbuffer' = DOMAIN depthbuffer
         /\ view' = view /\ proj' = proj]_vars

\* A clear that followed a draw which had written texels, with a view matrix set
C1_Witness ==
    last.op = "clear" /\ last.dirty /\ view = MirrorX

\* C3: when a vertex list is drawn into a cleared buffer and then drawn again,
\* the second pass fails the depth test at every covered pixel (no write), and
\* the buffers equal those of drawing the list once.
C3_Idempotent ==
    (last.op = "draw" /\ last.prev = "same" /\ frame.base = "clear" /\ frame.draws = 2)
    => /\ \A f \in Frags : ~f.wrote
       /\ LET once == process(width, height, last.vertices, view, proj,
                              ClearedColor, ClearedDepth, <<>>, <<>>, cast_mode)
          IN  backbuffer = once.backbuffer /\ depthbuffer = once.depth

\* The second of two draws of one list, whose first pass wrote pixels
C3_Witness ==
    /\ last.op = "draw" /\ last.prev = "same"
    /\ frame.base = "clear" /\ frame.draws = 2
    /\ Frags # {} /\ frame.drawn # {}

\* C4: a draw changes a color texel or depth cell only through a write made
\* for a triangle of positive signed area; triangles of area <= 0 (among them
\* collinear ones) write nothing.
C4_NonPositiveAreaWritesNothing ==
    [][last'.op = "draw" =>
         \A i \in DOMAIN depthbuffer :
             (depthbuffer'[i] # depthbuffer[i] \/ backbuffer'[i] # backbuffer[i])
             => \E k \in DOMAIN last'.frags :
                    /\ last'.frags[k].idx = i
                    /\ last'.frags[k].wrote
                    /\ edge_function(
                         map_coord(last'.triangles[3 * last'.frags[k].t - 2], width, height),
                         map_coord(last'.triangles[3 * last'.frags[k].t - 1], width, height),
                         map_coord(last'.triangles[3 * last'.frags[k].t], width, height)) > 0]_vars

\* A draw into a cleared buffer that scanned the box of a triangle of three
\* distinct collinear pixels
C4_Witness ==
    /\ last.op = "draw" /\ frame.base = "clear"
    /\ \E s \in Scanned :
          LET tri == LastTriangle(s.t)
          IN  /\ SignedArea(tri) = 0
              /\ tri.p1 # tri.p2 /\ tri.p2 # tri.p3 /\ tri.p1 # tri.p3

\* C8: the caches are empty whenever no call is running; the caches handed to
\* rasterize hold exactly one entry per vertex of that call, in input order,
\* and the triangles rasterized are triples of that call's own vertices.
C8_CachesPerCall ==
    /\ frag_cache = <<>> /\ vertex_cache = <<>>
    /\ last.op = "draw" =>
         /\ Len(last.triangles) = Len(last.vertices)
         /\ Len(last.attributes) = Len(last.vertices)
         /\ \A i \in 1..Len(last.vertices) :
              LET out == vertex_shader(last.vertices[i], Transform(view, proj))
              IN  i \in DOMAIN last.triangles /\ i \in DOMAIN last.attributes
                  /\ last.triangles[i] = out.pos /\ last.attributes[i] = out.out
         /\ \A s \in Scanned : 3 * s.t <= Len(last.vertices)

\* A draw of two triangles right after a draw of another vertex list
C8_Witness ==
    /\ last.op = "draw" /\ last.prev = "other" /\ frame.draws = 2
    /\ Len(last.vertices) = 6 /\ \E s \in Scanned : s.t = 2

\* C10: every pixel rasterize visits lies inside the buffer, and every index
\* it uses is in [0, width * height) and is that pixel's row-major index.
C10_InBounds ==
    last.op = "draw" =>
        /\ ~last.panicked
        /\ \A s \in Scanned : InViewport(<<s.x, s.y>>)
        /\ \A f \in Frags :
              /\ f.idx \in 0..(width * height - 1)
              /\ f.idx \in DOMAIN depthbuffer /\ f.idx \in DOMAIN backbuffer
              /\ f.idx % width = f.x /\ f.idx \div width = f.y

\* A draw that wrote pixels of a triangle with a vertex outside the viewport
C10_Witness ==
    /\ last.op = "draw"
    /\ \E f \in Frags :
          LET tri == LastTriangle(f.t)
          IN  /\ f.wrote
              /\ \E p \in {tri.p1, tri.p2, tri.p3} :
                    p[1] < 0 \/ p[1] > width \/ p[2] < 0 \/ p[2] > height

---------------------------------------------------------------------------
(* Claims the code does not meet *)

\* The color rasterize computes for triangle tri at pixel (x, y)
Shade(tri, x, y) ==
    LET area == SignedArea(tri)
        w1 == [n |-> edge_function(tri.p1, tri.p2, <<x, y>>), d |-> area]
        w2 == [n |-> edge_function(tri.p2, tri.p3, <<x, y>>), d |-> area]
        w3 == [n |-> edge_function(tri.p3, tri.p1, <<x, y>>), d |-> area]
    IN  ToRgba(fragment_shader(<<x, y>>, blend_Uv(tri.A, w1, tri.B, w2, tri.C, w3)))

\* n1/d1 < n2/d2 for positive denominators
FracLess(f, g) == f.n * g.d < g.n * f.d

DepthsInRange(tri) ==
    \A z \in {tri.a[3], tri.b[3], tri.c[3]} : z >= 0 /\ z < FAR

\* C2: after one draw of two triangles into a cleared buffer, every pixel at
\* which both triangles produced a fragment shows the color of the triangle
\* whose interpolated depth at that pixel is smaller (vertex depths within
\* the depth range), whichever was submitted first.
C2_NearerTriangleVisible ==
    (last.op = "draw" /\ frame.base = "clear" /\ frame.draws = 1
        /\ Len(last.vertices) = 6)
    => LET T == [t \in 1..2 |-> LastTriangle(t)]
       IN  (DepthsInRange(T[1]) /\ DepthsInRange(T[2]))
           => \A f \in Frags : \A g \in Frags :
                (f.idx = g.idx /\ f.t # g.t
                    /\ FracLess(TrueDepth(T[f.t], f.x, f.y), TrueDepth(T[g.t], g.x, g.y)))
                => backbuffer[f.idx] = Shade(T[f.t], f.x, f.y)

\* C5: after one draw of a single triangle of positive area, all of whose
\* mapped vertices lie inside the viewport, into a cleared buffer, every pixel
\* whose three edge values are >= 0 has been written and holds the scaled
\* barycentric interpolation of the three vertex depths.
C5_CoveredPixelsWritten ==
    (last.op = "draw" /\ frame.base = "clear" /\ frame.draws = 1
        /\ Len(last.vertices) = 3)
    => LET tri == LastTriangle(1)
       IN  (SignedArea(tri) > 0 /\ DepthsInRange(tri)
               /\ InViewport(tri.p1) /\ InViewport(tri.p2) /\ InViewport(tri.p3))
           => \A x \in 0..(width - 1) : \A y \in 0..(height - 1) :
                Inside(edge_function(tri.p1, tri.p2, <<x, y>>),
                       edge_function(tri.p2, tri.p3, <<x, y>>),
                       edge_function(tri.p3, tri.p1, <<x, y>>))
                => /\ (x + width * y) \in frame.drawn
                   /\ depthbuffer[x + width * y]
                        = DepthValue(TrueDepth(tri, x, y), cast_mode)

\* C7: both arrays have length width * height, and every pixel no draw has
\* written since construction or the last clear holds UINT32_MAX.
C7_UndrawnHoldsSentinel ==
    /\ DOMAIN backbuffer = 0..(width * height - 1)
    /\ DOMAIN depthbuffer = 0..(width * height - 1)
    /\ \A i \in DOMAIN depthbuffer : i \notin frame.drawn => depthbuffer[i] = UINT32_MAX

\* C9: at every pixel that passes the inside test, the weights passed to Blend
\* with the values of vertices a, b, c sum to 1 and reproduce the pixel as
\* w1 * p1 + w2 * p2 + w3 * p3; at a pixel that is the mapped position of a
\* vertex the interpolated depth is that vertex's depth.
C9_WeightsAreBarycentric ==
    last.op = "draw" =>
        \A f \in Frags :
            LET tri == LastTriangle(f.t)
                area == SignedArea(tri)
            IN  /\ f.w[1].n + f.w[2].n + f.w[3].n = area
                /\ f.w[1].d = area /\ f.w[2].d = area /\ f.w[3].d = area
                /\ f.w[1].n * tri.p1[1] + f.w[2].n * tri.p2[1] + f.w[3].n * tri.p3[1]
                     = area * f.x
                /\ f.w[1].n * tri.p1[2] + f.w[2].n * tri.p2[2] + f.w[3].n * tri.p3[2]
                     = area * f.y
                /\ (<<f.x, f.y>> = tri.p1 => f.z.n = tri.a[3] * f.z.d)
                /\ (<<f.x, f.y>> = tri.p2 => f.z.n = tri.b[3] * f.z.d)
                /\ (<<f.x, f.y>> = tri.p3 => f.z.n = tri.c[3] * f.z.d)

---------------------------------------------------------------------------
(* The scenario *)

\* The color the fragment shader produces for attribute u
ScShaded(u) ==
    ToRgba(fragment_shader(ScCentroid, <<[n |-> u[1], d |-> 1], [n |-> u[2], d |-> 1]>>))

\* C6 as stated: with the vertices submitted in the order (100,100),
\* (200,100), (150,200), the centroid holds the color shaded for U and a depth
\* below UINT32_MAX after the draw.
C6_ScenarioAsStated ==
    (sc.stage = "drawn" /\ sc.order = <<1, 2, 3>>)
    => /\ backbuffer[ScIdx] = ScShaded(sc.u)
       /\ U32Less(depthbuffer[ScIdx], UINT32_MAX)

\* C6 amended: with the vertices submitted in the order (100,100), (150,200),
\* (200,100), the centroid holds the color shaded for U and a depth below
\* UINT32_MAX after the draw.
C6_Scenario ==
    (sc.stage = "drawn" /\ sc.order = <<1, 3, 2>>)
    => /\ backbuffer[ScIdx] = ScShaded(sc.u)
       /\ U32Less(depthbuffer[ScIdx], UINT32_MAX)

\* The draw was made in that order and wrote the centroid with a color that
\* differs from the cleared one in its first two channels
C6_Witness ==
    /\ sc.stage = "drawn" /\ sc.order = <<1, 3, 2>>
    /\ sc.u = <<1, 1>> /\ sc.z = <<500, 854, 999>>
    /\ ScIdx \in frame.drawn
    /\ \E f \in Frags : f.wrote /\ f.x = 150 /\ f.y = 133 /\ f.idx = ScIdx

=============================================================================
